---- MODULE Spec2Model ----
(***************************************************************************)
(* NESTICLE-TK (emuai.py): the Tk shell NesticleTkApp driving one NESSystem *)
(* wrapper around an nes_py engine session.  Everything runs on the single  *)
(* Tk event-loop thread, so every handler (button command, key binding,     *)
(* after-callback, WM_DELETE_WINDOW) is one atomic action.                  *)
(*                                                                          *)
(* The nes_py engine is outside the repository.  Its calls are modelled by  *)
(* their outcomes, chosen nondeterministically where the source guards the  *)
(* call with try/except: NESEnv(path) and the initial env.reset() (lines    *)
(* 13-19), env.step (lines 27-36), Image.fromarray/PhotoImage (lines        *)
(* 155-160).  env.screen may be None (lines 31, 97, 170).  The unguarded    *)
(* calls, env.reset() on a ready session (line 23) and env.close() (line    *)
(* 40), return normally.                                                    *)
(***************************************************************************)
EXTENDS Naturals, Sequences, FiniteSets

(***************************************************************************)
(* Bounds of the model.                                                     *)
(***************************************************************************)
\* env.reset and env.step calls the engine receives in one behaviour (every
\* session constructed receives the env.reset of line 15)
MaxCalls == 4
\* the same budget in the input specification, which sends events for every key
InputCalls == 1
\* how many entries of the key table the shell specification sends events for
MaxKeys == 1

(***************************************************************************)
(* Key to NES controller mapping, emuai.py lines 59-62.                     *)
(***************************************************************************)
KeyOrder == <<"Right", "Left", "Down", "Up", "Return", "Shift_L", "x", "z">>

MappedKeys == {KeyOrder[i] : i \in 1..Len(KeyOrder)}

keymap ==
    [k \in MappedKeys |->
        CASE k = "Right"   -> 1
          [] k = "Left"    -> 2
          [] k = "Down"    -> 4
          [] k = "Up"      -> 8
          [] k = "Return"  -> 16
          [] k = "Shift_L" -> 32
          [] k = "x"       -> 64
          [] k = "z"       -> 128]

\* keysyms Tk can deliver that the table does not hold
UnmappedKeys == {"a"}

AllKeys == MappedKeys \cup UnmappedKeys

\* the keys the shell specification sends events for
SomeKeys ==
    {KeyOrder[i] : i \in 1..(IF MaxKeys < Len(KeyOrder) THEN MaxKeys ELSE Len(KeyOrder))}
        \cup UnmappedKeys

(***************************************************************************)
(* Python's | on non-negative ints, bit by bit.                             *)
(***************************************************************************)
RECURSIVE BitOr(_, _)
BitOr(a, b) ==
    IF a = 0 THEN b
    ELSE IF b = 0 THEN a
    ELSE (IF (a % 2) + (b % 2) > 0 THEN 1 ELSE 0) + 2 * BitOr(a \div 2, b \div 2)

\* self.keymap.get(k, 0)
keymap_get(k) == IF k \in DOMAIN keymap THEN keymap[k] ELSE 0


\* update_action, lines 119-123: fold | over the held keys, starting from 0
RECURSIVE update_action(_)
update_action(held) ==
    IF held = {} THEN 0
    ELSE LET k == CHOOSE x \in held : TRUE
         IN  BitOr(update_action(held \ {k}), keymap_get(k))

(***************************************************************************)
(* State.                                                                   *)
(***************************************************************************)
VARIABLES
    nes,              \* self.nes: 0 for None, else the id of the wrapper's engine session
    current_action,   \* self.current_action
    after_id,         \* self.after_id: 0 for None, else a Tk after id
    keys_pressed,     \* self.keys_pressed
    start_text,       \* start_btn["text"]
    start_state,      \* start_btn["state"]
    reset_state,      \* reset_btn["state"]
    status,           \* status["text"]
    canvas_items,     \* number of image items created on self.canvas
    sessions,         \* engine sessions constructed so far, with the calls made on each
    timers,           \* after ids whose callback Tk still has to run
    destroyed,        \* master.destroy() has run
    last,             \* the handler that ran last and the outcome the engine gave it
    halts,            \* what stopped or replaced the loop since Start was last pressed
    run_steps,        \* step calls since Start was last pressed
    run_paints,       \* successful paints by ticks since Start was last pressed
    pad_sent          \* the controller value env.step received in the handler that
                      \* ran last: {} when it made no step call

vars == <<nes, current_action, after_id, keys_pressed, start_text, start_state,
          reset_state, status, canvas_items, sessions, timers, destroyed, last,
          halts, run_steps, run_paints, pad_sent>>

input_vars == <<keys_pressed, current_action>>
button_vars == <<start_text, start_state, reset_state>>
loop_vars == <<after_id, timers>>
run_vars == <<halts, run_steps, run_paints>>

Event(op, arg) == [op |-> op, arg |-> arg]

\* how a key event finds the input mapper: the key is no entry of the table, an
\* entry that is held, or an entry that is not held
KeyEvent(op, k) ==
    Event(op, IF k \notin MappedKeys THEN "unmapped"
              ELSE IF k \in keys_pressed THEN "held" ELSE "unheld")

\* how a pass of schedule_frame went: what the engine did, and for a frame whether
\* the bitmap conversion of render_frame failed
StepEvent(op, out, paint_ok) ==
    Event(op, IF out = "frame" /\ ~paint_ok THEN "unpainted" ELSE out)

(***************************************************************************)
(* The engine session behind one NESSystem, and the calls made on it.       *)
(***************************************************************************)
OpenIds(ss) == {i \in 1..Len(ss) : ss[i].env = "open"}

\* NESEnv(rom_path) returned: a new engine session exists
NESEnv(ss) ==
    Append(ss, [env |-> "open", steps |-> 0, resets |-> 0, closes |-> 0,
                prior |-> OpenIds(ss)])

RECURSIVE SumOver(_, _, _)
SumOver(ss, i, field) ==
    IF i = 0 THEN 0 ELSE ss[i][field] + SumOver(ss, i - 1, field)

StepCalls == SumOver(sessions, Len(sessions), "steps")
ResetCalls == SumOver(sessions, Len(sessions), "resets")
EngineCalls == StepCalls + ResetCalls

\* NESSystem.__init__, lines 10-19.  out: what the engine does.
\* "ctor_raise": NESEnv(path) raises; "reset_raise": the first env.reset() raises;
\* anything else: both return.  The exception is re-raised (line 19).
NESSystem_init(ss, out) ==
    IF out = "ctor_raise"
    THEN [ok |-> FALSE, id |-> 0, sessions |-> ss]
    ELSE LET s1 == NESEnv(ss)
             id == Len(s1)
             s2 == [s1 EXCEPT ![id].resets = @ + 1]
         IN  IF out = "reset_raise"
             THEN [ok |-> FALSE, id |-> 0, sessions |-> s2]
             ELSE [ok |-> TRUE, id |-> id, sessions |-> s2]

\* NESSystem.reset resetting the engine twice
NESSystem_reset_twice(ss, id) ==
    IF ss[id].env = "open" THEN [ss EXCEPT ![id].resets = @ + 2] ELSE ss

\* NESSystem.reset, lines 21-24
NESSystem_reset(ss, id) ==
    IF ss[id].env = "open" THEN [ss EXCEPT ![id].resets = @ + 1] ELSE ss

\* NESSystem.step, lines 26-36.  out: "frame" (env.step returns, env.screen is an
\* array), "null" (env.step returns, env.screen is None), "raise" (env.step raises).
\* With self.env None the attribute lookup raises inside the try.
\* pad: the action env.step received.
NESSystem_step(ss, id, action, out) ==
    IF ss[id].env # "open"
    THEN [frame |-> "none", done |-> TRUE, sessions |-> ss, pad |-> {}]
    ELSE LET s1 == [ss EXCEPT ![id].steps = @ + 1]
         IN  IF out = "raise"
             THEN [frame |-> "none", done |-> TRUE, sessions |-> s1, pad |-> {action}]
             ELSE [frame |-> IF out = "null" THEN "none" ELSE "frame",
                   done |-> FALSE, sessions |-> s1, pad |-> {action}]

\* NESSystem.close dropping the reference without closing the engine
NESSystem_close_dropped(ss, id) == ss

\* NESSystem.close, lines 38-42
NESSystem_close(ss, id) ==
    IF ss[id].env = "open"
    THEN [ss EXCEPT ![id].closes = @ + 1, ![id].env = "closed"]
    ELSE ss

\* env.screen as read by the shell (lines 96, 169)
screen(out) == IF out = "null" THEN "none" ELSE "frame"

\* render_frame, lines 154-160: one more image item unless the conversion raises
render_frame(items, paint_ok) == IF paint_ok THEN items + 1 ELSE items

\* master.after(16, ...): Tk hands out an id it has not handed out before; only
\* after_id and the pending set ever hold one, so any id outside both is fresh
FreshTimer(tm) == CHOOSE t \in 1..(Cardinality(tm) + 2) : t \notin tm /\ t # after_id

\* after_cancel left out: the callback stays pending
after_cancel_skipped(tm, id) == tm

\* master.after_cancel(id): the callback will not run; unknown ids are ignored
after_cancel(tm, id) == tm \ {id}

StepOutcomes == {"frame", "null", "raise"}
ScreenOutcomes == {"frame", "null"}
LoadOutcomes == {"cancel", "ctor_raise", "reset_raise", "frame", "null"}
PaintOutcomes == BOOLEAN

Init ==
    /\ nes = 0
    /\ current_action = 0
    /\ after_id = 0
    /\ keys_pressed = {}
    /\ start_text = "Start"
    /\ start_state = "disabled"
    /\ reset_state = "disabled"
    /\ status = "No ROM loaded"
    /\ canvas_items = 0
    /\ sessions = <<>>
    /\ timers = {}
    /\ destroyed = FALSE
    /\ last = Event("init", "")
    /\ halts = {}
    /\ run_steps = 0
    /\ run_paints = 0
    /\ pad_sent = {}

(***************************************************************************)
(* Input mapper.                                                            *)
(***************************************************************************)
\* on_key_press storing every keysym, whether the table holds it or not
on_key_press_unfiltered(k) ==
    /\ ~destroyed
    /\ keys_pressed' = keys_pressed \cup {k}
    /\ current_action' = update_action(keys_pressed')
    /\ last' = KeyEvent("press", k)
    /\ pad_sent' = {}
    /\ UNCHANGED <<nes, button_vars, loop_vars, status, canvas_items, sessions,
                   destroyed, run_vars>>

\* on_key_press, lines 109-112
on_key_press(k) ==
    /\ ~destroyed
    /\ IF k \in DOMAIN keymap
       THEN /\ keys_pressed' = keys_pressed \cup {k}
            /\ current_action' = update_action(keys_pressed')
       ELSE UNCHANGED input_vars
    /\ last' = KeyEvent("press", k)
    /\ pad_sent' = {}
    /\ UNCHANGED <<nes, button_vars, loop_vars, status, canvas_items, sessions,
                   destroyed, run_vars>>

\* on_key_release without the call of update_action
on_key_release_stale(k) ==
    /\ ~destroyed
    /\ IF k \in DOMAIN keymap /\ k \in keys_pressed
       THEN /\ keys_pressed' = keys_pressed \ {k}
            /\ UNCHANGED current_action
       ELSE UNCHANGED input_vars
    /\ last' = KeyEvent("release", k)
    /\ pad_sent' = {}
    /\ UNCHANGED <<nes, button_vars, loop_vars, status, canvas_items, sessions,
                   destroyed, run_vars>>

\* on_key_release, lines 114-117
on_key_release(k) ==
    /\ ~destroyed
    /\ IF k \in DOMAIN keymap /\ k \in keys_pressed
       THEN /\ keys_pressed' = keys_pressed \ {k}
            /\ current_action' = update_action(keys_pressed')
       ELSE UNCHANGED input_vars
    /\ last' = KeyEvent("release", k)
    /\ pad_sent' = {}
    /\ UNCHANGED <<nes, button_vars, loop_vars, status, canvas_items, sessions,
                   destroyed, run_vars>>

(***************************************************************************)
(* Application shell.                                                       *)
(***************************************************************************)
\* load_rom, lines 86-107.  out = "cancel": the dialog returns no path.
\* Otherwise the held wrapper is closed and dropped, then NESSystem(path) runs:
\* out is what the engine does there and, when it succeeds, what env.screen holds.
load_rom(out, paint_ok) ==
    /\ ~destroyed
    /\ last' = Event("load", out)
    /\ pad_sent' = {}
    /\ IF out = "cancel"
       THEN UNCHANGED <<nes, input_vars, button_vars, loop_vars, status,
                        canvas_items, sessions, destroyed, run_vars>>
       ELSE LET closed == IF nes # 0 THEN NESSystem_close(sessions, nes) ELSE sessions
                made == NESSystem_init(closed, out)
            IN  /\ out # "ctor_raise" => EngineCalls < MaxCalls
                /\ sessions' = made.sessions
                /\ nes' = made.id
                /\ IF made.ok
                   THEN /\ canvas_items' =
                              IF screen(out) # "none"
                              THEN render_frame(canvas_items, paint_ok)
                              ELSE canvas_items
                        /\ status' = "Loaded"
                        /\ start_state' = "normal"
                        /\ reset_state' = "normal"
                        /\ halts' = halts \cup {"load"}
                   ELSE /\ status' = "Load failed"
                        /\ UNCHANGED <<canvas_items, start_state, reset_state, halts>>
                /\ UNCHANGED <<input_vars, start_text, loop_vars, destroyed,
                               run_steps, run_paints>>

\* schedule_frame passing the bitmask shifted down by one bit
step_action_shifted == current_action \div 2

\* the argument of self.nes.step, line 139
step_action == current_action

\* schedule_frame halting only on a missing frame of an engine that is not done:
\* a done engine is scheduled again
schedule_frame_done_reschedules(tm, text, stat, out, paint_ok) ==
    LET r == NESSystem_step(sessions, nes, step_action, out)
    IN  /\ sessions' = r.sessions
        /\ pad_sent' = r.pad
        /\ canvas_items' =
              IF r.frame # "none" THEN render_frame(canvas_items, paint_ok)
              ELSE canvas_items
        /\ IF r.frame # "none" \/ r.done
           THEN /\ after_id' = FreshTimer(tm)
                /\ timers' = tm \cup {FreshTimer(tm)}
                /\ status' = stat
                /\ start_text' = text
           ELSE /\ status' = "Frame error"
                /\ start_text' = text
                /\ after_id' = 0
                /\ timers' = tm

\* schedule_frame without the master.after of line 148
schedule_frame_once(tm, text, stat, out, paint_ok) ==
    LET r == NESSystem_step(sessions, nes, step_action, out)
    IN  /\ sessions' = r.sessions
        /\ pad_sent' = r.pad
        /\ canvas_items' =
              IF r.frame # "none" THEN render_frame(canvas_items, paint_ok)
              ELSE canvas_items
        /\ status' = IF r.frame = "none" THEN "Frame error"
                     ELSE IF r.done THEN "Game Over" ELSE stat
        /\ start_text' = IF r.frame # "none" /\ r.done THEN "Start" ELSE text
        /\ after_id' = 0
        /\ timers' = tm

\* schedule_frame without line 145: a missing frame leaves the handle stored
schedule_frame_keeps_handle(tm, text, stat, out, paint_ok) ==
    LET r == NESSystem_step(sessions, nes, step_action, out)
    IN  /\ sessions' = r.sessions
        /\ pad_sent' = r.pad
        /\ canvas_items' =
              IF r.frame # "none" THEN render_frame(canvas_items, paint_ok)
              ELSE canvas_items
        /\ status' = IF r.frame = "none" THEN "Frame error"
                     ELSE IF r.done THEN "Game Over" ELSE stat
        /\ start_text' = IF r.frame # "none" /\ r.done THEN "Start" ELSE text
        /\ after_id' = IF r.frame = "none" THEN after_id
                       ELSE IF r.done THEN 0 ELSE FreshTimer(tm)
        /\ timers' = IF r.frame # "none" /\ ~r.done THEN tm \cup {FreshTimer(tm)} ELSE tm

\* schedule_frame with a render_frame that lets the conversion error escape: the
\* callback ends at line 141
schedule_frame_paint_raises(tm, text, stat, out, paint_ok) ==
    LET r == NESSystem_step(sessions, nes, step_action, out)
        escaped == r.frame # "none" /\ ~paint_ok
    IN  /\ sessions' = r.sessions
        /\ pad_sent' = r.pad
        /\ canvas_items' =
              IF r.frame # "none" THEN render_frame(canvas_items, paint_ok)
              ELSE canvas_items
        /\ status' = IF r.frame = "none" THEN "Frame error"
                     ELSE IF escaped THEN stat
                     ELSE IF r.done THEN "Game Over" ELSE stat
        /\ start_text' = IF r.frame # "none" /\ ~escaped /\ r.done THEN "Start" ELSE text
        /\ after_id' = IF escaped THEN after_id
                       ELSE IF r.frame # "none" /\ ~r.done THEN FreshTimer(tm) ELSE 0
        /\ timers' = IF r.frame # "none" /\ ~escaped /\ ~r.done
                     THEN tm \cup {FreshTimer(tm)} ELSE tm

\* schedule_frame, lines 138-152, entered with a wrapper held.  tm: the callbacks
\* still pending; text, stat: the control label and status line on entry.
schedule_frame(tm, text, stat, out, paint_ok) ==
    LET r == NESSystem_step(sessions, nes, step_action, out)
    IN  /\ sessions' = r.sessions
        /\ pad_sent' = r.pad
        /\ IF r.frame # "none"
           THEN /\ canvas_items' = render_frame(canvas_items, paint_ok)
                /\ IF ~r.done
                   THEN /\ after_id' = FreshTimer(tm)
                        /\ timers' = tm \cup {FreshTimer(tm)}
                        /\ status' = stat
                        /\ start_text' = text
                   ELSE /\ status' = "Game Over"
                        /\ start_text' = "Start"
                        /\ after_id' = 0
                        /\ timers' = tm
           ELSE /\ status' = "Frame error"
                /\ after_id' = 0
                /\ timers' = tm
                /\ start_text' = text
                /\ UNCHANGED canvas_items

\* what one pass of schedule_frame adds to the counters of the current run
Painted(out, paint_ok) == IF out = "frame" /\ paint_ok THEN 1 ELSE 0
Halted(out) ==
    LET r == NESSystem_step(sessions, nes, step_action, out)
    IN  IF r.done THEN {"done"} ELSE IF r.frame = "none" THEN {"null"} ELSE {}

\* toggle_run, lines 125-136: the Start/Pause control
toggle_run(out, paint_ok) ==
    /\ ~destroyed
    /\ start_state = "normal"
    /\ IF nes = 0
       THEN /\ last' = Event("toggle", "ignored")
            /\ pad_sent' = {}
            /\ UNCHANGED <<nes, input_vars, button_vars, loop_vars, status,
                           canvas_items, sessions, destroyed, run_vars>>
       ELSE IF after_id # 0
       THEN /\ last' = Event("toggle", "pause")
            /\ pad_sent' = {}
            /\ timers' = after_cancel(timers, after_id)
            /\ after_id' = 0
            /\ start_text' = "Start"
            /\ status' = "Paused"
            /\ halts' = halts \cup {"pause"}
            /\ UNCHANGED <<nes, input_vars, start_state, reset_state, canvas_items,
                           sessions, destroyed, run_steps, run_paints>>
       ELSE /\ EngineCalls < MaxCalls
            /\ last' = StepEvent("start", out, paint_ok)
            /\ schedule_frame(timers, "Pause", "Running", out, paint_ok)
            /\ halts' = Halted(out)
            /\ run_steps' = 1
            /\ run_paints' = Painted(out, paint_ok)
            /\ UNCHANGED <<nes, input_vars, start_state, reset_state, destroyed>>

\* The after-callback Tk runs for a pending id: schedule_frame, lines 138-152.
\* With self.nes None line 139 raises AttributeError out of the callback.
Tick(out, paint_ok) ==
    /\ ~destroyed
    /\ \E t \in timers :
          IF nes = 0
          THEN /\ last' = Event("tick", "crash")
               /\ pad_sent' = {}
               /\ timers' = timers \ {t}
               /\ UNCHANGED <<nes, input_vars, button_vars, after_id, status,
                              canvas_items, sessions, destroyed, run_vars>>
          ELSE /\ EngineCalls < MaxCalls
               /\ last' = StepEvent("tick", out, paint_ok)
               /\ schedule_frame(timers \ {t}, start_text, status, out, paint_ok)
               /\ halts' = halts \cup Halted(out)
               /\ run_steps' = run_steps + 1
               /\ run_paints' = run_paints + Painted(out, paint_ok)
               /\ UNCHANGED <<nes, input_vars, start_state, reset_state, destroyed>>

\* reset_rom, lines 162-173.  out: what env.screen holds after the reset.
reset_rom(out, paint_ok) ==
    /\ ~destroyed
    /\ reset_state = "normal"
    /\ pad_sent' = {}
    /\ IF nes = 0
       THEN /\ last' = Event("reset", "ignored")
            /\ UNCHANGED <<nes, input_vars, button_vars, loop_vars, status,
                           canvas_items, sessions, destroyed, run_vars>>
       ELSE /\ EngineCalls < MaxCalls
            /\ last' = Event("reset", out)
            /\ timers' = IF after_id # 0 THEN after_cancel(timers, after_id) ELSE timers
            /\ after_id' = 0
            /\ sessions' = NESSystem_reset(sessions, nes)
            /\ canvas_items' =
                  IF screen(out) # "none"
                  THEN render_frame(canvas_items, paint_ok)
                  ELSE canvas_items
            /\ start_text' = "Start"
            /\ status' = "Reset"
            /\ halts' = halts \cup {"reset"}
            /\ UNCHANGED <<nes, input_vars, start_state, reset_state, destroyed,
                           run_steps, run_paints>>

\* on_close destroying the window without cancelling the tick or closing the engine
on_close_destroy_only ==
    /\ ~destroyed
    /\ last' = Event("close", "")
    /\ pad_sent' = {}
    /\ destroyed' = TRUE
    /\ UNCHANGED <<nes, input_vars, button_vars, loop_vars, status, canvas_items,
                   sessions, run_vars>>

\* on_close, lines 175-180
on_close ==
    /\ ~destroyed
    /\ last' = Event("close", "")
    /\ pad_sent' = {}
    /\ timers' = IF after_id # 0 THEN after_cancel(timers, after_id) ELSE timers
    /\ sessions' = IF nes # 0 THEN NESSystem_close(sessions, nes) ELSE sessions
    /\ destroyed' = TRUE
    /\ UNCHANGED <<nes, input_vars, button_vars, after_id, status, canvas_items,
                   run_vars>>

(***************************************************************************)
(* Specifications.                                                          *)
(***************************************************************************)
KeyPress == \E k \in SomeKeys : on_key_press(k)
KeyRelease == \E k \in SomeKeys : on_key_release(k)
LoadRom == \E out \in LoadOutcomes, p \in PaintOutcomes : load_rom(out, p)
ToggleRun == \E out \in StepOutcomes, p \in PaintOutcomes : toggle_run(out, p)
TimerFires == \E out \in StepOutcomes, p \in PaintOutcomes : Tick(out, p)
ResetRom == \E out \in ScreenOutcomes, p \in PaintOutcomes : reset_rom(out, p)
WindowClose == on_close

Next ==
    \/ KeyPress
    \/ KeyRelease
    \/ LoadRom
    \/ ToggleRun
    \/ TimerFires
    \/ ResetRom
    \/ WindowClose

Spec == Init /\ [][Next]_vars

\* The input specification: events for every key of the table, and for the keys
\* outside it, around a shell whose engine receives at most InputCalls calls.
AnyKeyPress == \E k \in AllKeys : on_key_press(k)
AnyKeyRelease == \E k \in AllKeys : on_key_release(k)
InputBudget == EngineCalls <= InputCalls

NextInput ==
    \/ AnyKeyPress
    \/ AnyKeyRelease
    \/ LoadRom /\ InputBudget'
    \/ ToggleRun /\ InputBudget'
    \/ ResetRom /\ InputBudget'
    \/ WindowClose

SpecInput == Init /\ [][NextInput]_vars

(***************************************************************************)
(* Properties.                                                              *)
(***************************************************************************)
Bit(n, b) == (n \div (2 ^ b)) % 2

\* a step of the behaviour in which the engine receives a step call
StepCalled == StepCalls' # StepCalls

\* the sessions a step of the behaviour constructs
Constructed == (Len(sessions) + 1)..Len(sessions')

\* C1: after any sequence of key events the bitmask is the bitwise OR of the
\* flags of exactly the held keys (bit b is set iff some held key has bit b
\* set), it is 0 when nothing is held, and only table keys are ever held.
BitmaskIsOrOfHeldKeys ==
    /\ keys_pressed \subseteq MappedKeys
    /\ current_action \in 0..255
    /\ \A b \in 0..7 :
          Bit(current_action, b) = 1
              <=> \E k \in keys_pressed : Bit(keymap[k], b) = 1
    /\ keys_pressed = {} => current_action = 0

\* three keys held after a release, with a ROM loaded
BitmaskWitness ==
    /\ keys_pressed = {"Right", "Up", "z"}
    /\ current_action = 137
    /\ last = Event("release", "held")
    /\ nes # 0

\* C2: a press of a held table key, a release of a table key that is not held,
\* and any event of a key outside the table leave the held set and the bitmask
\* as they were.
IdleKeyEvent ==
    \/ last' = Event("press", "held")
    \/ last' = Event("release", "unheld")
    \/ last'.op \in {"press", "release"} /\ last'.arg = "unmapped"

IdleKeyEventsChangeNothing ==
    [][IdleKeyEvent => UNCHANGED input_vars]_vars

\* a held key was pressed again while another key was held too
IdleKeyEventWitness ==
    /\ last = Event("press", "held")
    /\ Cardinality(keys_pressed) = 2
    /\ current_action = 129

\* C3: once Pause has been pressed no tick is pending, and the engine receives
\* no step call until the control starts the loop again.
NoStepAfterPause ==
    [][/\ "pause" \in halts' => timers' = {}
       /\ "pause" \in halts /\ StepCalled => last'.op = "start"]_vars

\* Pause was pressed in a run that had stepped twice, and a key event followed
PauseWitness ==
    /\ halts = {"pause"}
    /\ run_steps = 2
    /\ last.op = "press"
    /\ status = "Paused"

\* C4: once a step has reported done no tick is pending, and the engine
\* receives no step call until the control starts the loop again.
NoStepAfterDone ==
    [][/\ "done" \in halts' => timers' = {} /\ after_id' = 0
       /\ "done" \in halts /\ StepCalled => last'.op = "start"]_vars

\* the second tick of a run reported done
DoneWitness ==
    /\ last = Event("tick", "raise")
    /\ "done" \in halts
    /\ run_steps = 2

\* C5: when the engine raises on the k-th tick of a run the loop has painted
\* k-1 times, shows "Game Over" and has no tick pending.
EngineRaiseShowsGameOver ==
    (last.op \in {"start", "tick"} /\ last.arg = "raise")
        => /\ run_paints = run_steps - 1
           /\ status = "Game Over"
           /\ timers = {}

\* C6: once a ROM has been loaded no tick is pending, and the engine receives
\* no step call until the control starts the loop.
NoStepAfterLoad ==
    [][/\ "load" \in halts' => timers' = {}
       /\ "load" \in halts /\ StepCalled => last'.op = "start"]_vars

\* C7: a load with a session held closes that session, once, before it
\* constructs another; no closed session is stepped, reset or closed again.
OldSessionClosedOnceBeforeNew ==
    [][/\ (nes # 0 /\ last'.op = "load" /\ last'.arg # "cancel")
           => /\ sessions'[nes].env = "closed"
              /\ sessions'[nes].closes = 1
              /\ \A j \in Constructed : nes \notin sessions'[j].prior
       /\ \A i \in 1..Len(sessions) :
             sessions[i].env = "closed" => sessions'[i] = sessions[i]]_vars

\* a second ROM was loaded over a session that had been stepped
ReloadWitness ==
    /\ Len(sessions) = 2
    /\ nes = 2
    /\ sessions[1].steps > 0
    /\ sessions[1].closes = 1
    /\ last.op = "load"

\* C8: at most one engine session is open.
AtMostOneSessionOpen == Cardinality(OpenIds(sessions)) <= 1

\* C9: a load that fails shows the failure, holds no wrapper and leaves no
\* session it constructed open.
FailedLoadLeavesNoSession ==
    [][(last'.op = "load" /\ last'.arg \in {"ctor_raise", "reset_raise"})
          => /\ status' = "Load failed"
             /\ nes' = 0
             /\ \A j \in Constructed : sessions'[j].env = "closed"]_vars

\* C10: Reset with a ROM loaded cancels the pending tick, resets the engine
\* once, labels the control "Start"; the engine receives no step call until
\* the control starts the loop again.
ResetPausesTheLoop ==
    [][/\ (last'.op = "reset" /\ last'.arg # "ignored")
           => /\ after_id' = 0
              /\ sessions'[nes].resets = sessions[nes].resets + 1
              /\ \A i \in 1..Len(sessions) : i # nes => sessions'[i] = sessions[i]
              /\ start_text' = "Start"
       /\ "reset" \in halts' => timers' = {}
       /\ "reset" \in halts /\ StepCalled => last'.op = "start"]_vars

\* Reset was pressed while the loop was running
ResetWitness ==
    /\ halts = {"reset"}
    /\ run_steps >= 1
    /\ last.op = "reset"
    /\ status = "Reset"

\* C11: once the window is closed no tick is pending, the engine receives no
\* further step call, and the session the shell holds, if any, is closed.
CloseStopsEverything ==
    [][/\ destroyed' => /\ timers' = {}
                        /\ nes' # 0 => sessions'[nes'].env = "closed"
       /\ destroyed => ~StepCalled]_vars

\* the window was closed while the loop was running
CloseWitness ==
    /\ destroyed
    /\ last.op = "close"
    /\ nes # 0
    /\ after_id # 0
    /\ halts = {}
    /\ run_steps = 2

\* C12: a tick whose step yields a frame, with done false, is one step call and
\* one paint, and leaves exactly the next tick pending under the stored handle;
\* a pending tick goes away only by Pause, Reset, WindowClose, or by firing
\* into a step without a frame or into a shell without a handle.
FrameTickStepsPaintsReschedules ==
    [][/\ (last'.op \in {"start", "tick"} /\ last'.arg = "frame")
           => /\ StepCalls' = StepCalls + 1
              /\ canvas_items' = canvas_items + 1
              /\ run_steps' = (IF last'.op = "start" THEN 0 ELSE run_steps) + 1
              /\ run_paints' = (IF last'.op = "start" THEN 0 ELSE run_paints) + 1
              /\ after_id' # 0
              /\ timers' = {after_id'}
       /\ (timers # {} /\ timers' = {})
           => \/ last' = Event("toggle", "pause")
              \/ last'.op \in {"reset", "close"}
              \/ last'.op = "tick" /\ last'.arg \in {"null", "raise", "crash"}]_vars

\* three ticks of an undisturbed run: three steps, three paints, a tick pending
SteadyRunWitness ==
    /\ halts = {}
    /\ last = Event("tick", "frame")
    /\ run_steps = 3
    /\ run_paints = 3
    /\ timers = {after_id}

\* C13: the canvas holds at most one image item.
AtMostOneCanvasImage == canvas_items <= 1

\* C14: a tick whose step yields no frame, with done false, leaves no tick
\* pending, shows "Frame error" and keeps the session open; the next press of
\* the control starts the loop and steps that same session.
NullFrameHaltsAndResumes ==
    [][/\ (last'.op \in {"start", "tick"} /\ last'.arg = "null")
           => /\ timers' = {}
              /\ after_id' = 0
              /\ status' = "Frame error"
              /\ nes # 0 /\ nes' = nes
              /\ sessions'[nes].env = "open"
       /\ (last.op \in {"start", "tick"} /\ last.arg = "null"
              /\ last'.op \in {"toggle", "start"})
           => /\ last'.op = "start"
              /\ nes' = nes
              /\ sessions'[nes].steps = sessions[nes].steps + 1]_vars

\* the second tick of a run yielded no frame
NullFrameWitness ==
    /\ last = Event("tick", "null")
    /\ status = "Frame error"
    /\ run_steps = 2
    /\ timers = {}
    /\ sessions[nes].env = "open"

\* C15: a tick whose frame cannot be converted paints nothing and still leaves
\* the next tick pending, the control and the status line as they were.
PaintFailureKeepsLoopRunning ==
    [][(last'.op \in {"start", "tick"} /\ last'.arg = "unpainted")
          => /\ StepCalls' = StepCalls + 1
             /\ canvas_items' = canvas_items
             /\ after_id' # 0
             /\ timers' = {after_id'}
             /\ start_text' = (IF last'.op = "start" THEN "Pause" ELSE start_text)
             /\ status' = (IF last'.op = "start" THEN "Running" ELSE status)]_vars

\* the second tick of a run could not be painted, and the third is pending
PaintFailureWitness ==
    /\ last = Event("tick", "unpainted")
    /\ run_steps = 2
    /\ run_paints = 1
    /\ timers = {after_id}
    /\ start_text = "Pause"

\* C16: until the window is closed, after_id is set exactly when a tick
\* callback is pending.
HandleSetIffTickPending == ~destroyed => (after_id # 0 <=> timers # {})

\* C17: the value env.step receives is the bitwise OR of the flags of the keys
\* held when the tick runs; a key event makes no step call and leaves the
\* handle, the sessions, the timer, the control and the status line alone.
StepReceivesHeldKeys ==
    [][/\ (last'.op \in {"start", "tick"} /\ last'.arg # "crash")
           => /\ Cardinality(pad_sent') = 1
              /\ \A n \in pad_sent' : \A b \in 0..7 :
                    Bit(n, b) = 1 <=> \E k \in keys_pressed' : Bit(keymap[k], b) = 1
       /\ last'.op \in {"press", "release"}
           => /\ ~StepCalled
              /\ UNCHANGED <<nes, sessions, loop_vars, button_vars, status>>]_vars

\* the second tick of a run ran with Right held and the engine received its flag
HeldKeyWitness ==
    /\ last.op = "tick"
    /\ keys_pressed = {"Right"}
    /\ pad_sent = {1}
    /\ run_steps = 2

\* C18: whenever a tick is pending the shell holds a wrapper whose session is
\* open.
PendingTickHasOpenSession ==
    timers # {} => (nes # 0 /\ sessions[nes].env = "open")

\* C19: at most one tick callback is pending.
AtMostOneTickPending == Cardinality(timers) <= 1

\* the loop was started again on a second ROM
RestartWitness ==
    /\ Len(sessions) = 2
    /\ nes = 2
    /\ sessions[1].steps = 1
    /\ last = Event("start", "frame")
    /\ Cardinality(timers) = 1

\* C20: until the window is closed, the control reads "Pause" exactly when a
\* tick is pending.
LabelPauseIffTickPending ==
    ~destroyed => (start_text = "Pause" <=> timers # {})

====
